---- MODULE Spec2Model ----
(***************************************************************************)
(* Service discovery, registration and load balancing of quickgo/grpc:    *)
(* EtcdRegistry / EtcdResolver (grpc/etcd.go), StaticResolver and the     *)
(* serviceResolver adapter (service discovery file), StaticRegistry and   *)
(* ServiceRegistrar (service registry file), roundRobinPicker             *)
(* (grpc/balancer.go).                                                    *)
(*                                                                         *)
(* Strings are sequences of one-character strings, so that path.Join,     *)
(* strings.Split and etcd's byte-prefix range read are computed, not      *)
(* assumed.                                                               *)
(***************************************************************************)
EXTENDS Integers, Sequences, FiniteSets, TLC

(***************************************************************************)
(* Bounds of the model.                                                    *)
(***************************************************************************)
NumRegistries == 2
MaxLease == 2
MaxConns == 3
MaxPicks == 7
MaxServices == 2
MaxKeepAliveCalls == 2
NumAdapters == 2
MaxStaticAddresses == 2
MaxEntries == 3
NumWatching == 1
NumProviders == 3
MaxClients == 2
NumCallers == 2
NumRegistering == 1

(***************************************************************************)
(* Strings.  "o" stands for a service name such as "orders", "ov" for a   *)
(* name such as "orders-v2" that has the first as a leading substring.    *)
(***************************************************************************)
Slash == "/"

\* etcd.go:19  DefaultEtcdPrefix = "/grpc/services", shortened to "/g"
DefaultEtcdPrefix == <<"/", "g">>

ServiceNames == { <<"o">>, <<"o", "v">> }
Addresses == { <<"a">>, <<"b">> }

\* byte order of the characters used (ASCII: '/' < 'a' < 'b' < 'g' < 'o' < 'v')
CharRank(c) ==
  CASE c = "/" -> 47
    [] c = "a" -> 97
    [] c = "b" -> 98
    [] c = "g" -> 103
    [] c = "o" -> 111
    [] c = "v" -> 118

\* path.Join: the non-empty elements joined by "/"
RECURSIVE PathJoin(_)
PathJoin(elems) ==
  IF elems = <<>> THEN <<>>
  ELSE LET rest == PathJoin(Tail(elems))
       IN  IF Head(elems) = <<>> THEN rest
           ELSE IF rest = <<>> THEN Head(elems)
           ELSE Head(elems) \o <<Slash>> \o rest

\* strings.Split(keyStr, "/"): the parts between the separators
RECURSIVE SplitFrom(_, _, _)
SplitFrom(str, i, cur) ==
  IF i > Len(str) THEN <<cur>>
  ELSE IF str[i] = Slash THEN <<cur>> \o SplitFrom(str, i + 1, <<>>)
  ELSE SplitFrom(str, i + 1, Append(cur, str[i]))

Split(str) == SplitFrom(str, 1, <<>>)

\* clientv3.WithPrefix: the keys that start with the bytes of p
HasPrefix(k, p) == Len(k) >= Len(p) /\ SubSeq(k, 1, Len(p)) = p

\* byte-wise order of keys, the order of a range read
RECURSIVE LexLess(_, _)
LexLess(x, y) ==
  IF x = <<>> THEN y # <<>>
  ELSE IF y = <<>> THEN FALSE
  ELSE IF Head(x) = Head(y) THEN LexLess(Tail(x), Tail(y))
  ELSE CharRank(Head(x)) < CharRank(Head(y))

RECURSIVE SortKeys(_)
SortKeys(S) ==
  IF S = {} THEN <<>>
  ELSE LET m == CHOOSE k \in S : \A o \in S : o = k \/ LexLess(k, o)
       IN  <<m>> \o SortKeys(S \ {m})

SeqToSet(q) == { q[i] : i \in 1..Len(q) }

(***************************************************************************)
(* Logger levels: const ( LevelDebug Level = iota ... LevelFatal ).         *)
(***************************************************************************)
LevelDebug == 0
LevelInfo == 1
LevelWarn == 2
LevelError == 3
LevelFatal == 4

\* the levels of the five logging methods
Levels == LevelDebug..LevelFatal

\* Level is an int: Config.Level and SetLevel take any value of it
LevelValues == (LevelDebug - 1)..(LevelFatal + 1)

(***************************************************************************)
(* State.                                                                  *)
(***************************************************************************)
VARIABLES
  \* ---- the coordination store (etcd) ----
  kvs,          \* key string -> lease id the key is bound to
  leases,       \* lease id -> "free" | "alive" | "gone" (revoked or expired)
  streamOwner,  \* lease id -> registry whose client keeps it alive, 0: none
  \* ---- EtcdRegistry, one per index ----
  regPc,        \* position inside Register / Deregister ("idle": mu free);
                \* "delete" after the revoke branch of Deregister was taken,
                \* "deleteOnly" when r.leaseID was 0
  regArgs,      \* (serviceName, address) of the call in progress
  leaseID,      \* r.leaseID
  leaseKeep,    \* r.leaseKeep: lease id of the channel held, 0: nil
  clientClosed, \* r.client was closed
  regErr,       \* the last call on r returned an error
  keepLoop,     \* per lease: the goroutine Register starts to read the lease's
                \* keep-alive channel: "none" | "ranging" | "ended"
  keepWarned,   \* per lease: that goroutine logged "KeepAlive channel closed"
  \* ---- EtcdResolver.Resolve as called by a client ----
  resolveOut,   \* the last Resolve: name, getOk (the Get succeeded), result
  \* ---- the picker built by roundRobinPickerBuilder.Build ----
  pickerKind,   \* "none" | "err" (base.NewErrPicker) | "rr" (roundRobinPicker)
  subConns,     \* p.subConns
  next,         \* p.next
  picks,        \* what the Pick calls on this picker returned, in mutex order
  lastPick,     \* the last Pick's result: SubConn (0: none) and error
  connWeights,  \* SubConn -> the weight its instance was registered with
  \* ---- StaticRegistry ----
  services,     \* r.services: serviceName -> list of ServiceInfo
  \* ---- ServiceRegistrar over that registry ----
  srMetadata,   \* sr.metadata["weight"], <<>> when the key is absent
  srCancelled,  \* sr.cancel() was called: sr.ctx is done
  keepAliveTicker, \* "nil" | "running" | "stopped"
  tickReady,    \* a tick waits in keepAliveTicker.C
  hbPc,         \* the heartbeat goroutine: "none" | "select" | "tick" | "done"
  srClosed,     \* ServiceRegistrar.Close has returned
  keepAliveCalls, \* KeepAlive calls the registry has received
  \* ---- EtcdResolver with its watches ----
  watchers,     \* r.watchers: serviceName -> the watch whose cancel is stored
  resolverClosed, \* EtcdResolver.Close was called: r.client is closed
  watchCancelled, \* per watch: the cancel of its watchCtx was called
  pending,      \* per watch: a response waits in its watchChan
  \* ---- serviceResolver (the adapter), one per client connection; watch i
  \*      is the one adapter i starts, with its callback ----
  adPc,         \* where adapter i, its Watch call and its watch task stand
  hand,         \* the addresses that thread holds between Resolve and use
  adCtxCancelled, \* r.cancel() was called on the context start() created
  adClosed,     \* serviceResolver.Close has returned
  ccState,      \* the addresses of the last cc.UpdateState of adapter i
  \* ---- StaticResolver ----
  staticAddresses, \* r.addresses
  staticResolve,   \* what the last Resolve on it returned
  staticWatch,     \* the last Watch on it: its error, what its callback got
  \* ---- the server process: GrpcServer ----
  srvPc,        \* where NewGrpcServer, Start and Stop stand
  srvConfig,    \* (config.ServiceName, serverAddress), <<>> before NewGrpcServer
  exited,       \* the process ended in os.Exit(1) (logger.Fatal)
  \* ---- one Logger ----
  logLevel,     \* l.level
  logged,       \* the levels of the entries written to l.output, in order
  lastLog,      \* <<level>> of the last Debug/Info/Warn/Error/Fatal call
  \* ---- gRPC's resolver registry and the Clients made by NewClient ----
  schemeTable,  \* scheme -> the provider of the builder registered last, 0: none
  clSd,         \* per client: config.ServiceDiscovery of its NewClient, 0: nil
  clAddress,    \* c.address, <<>> while the client does not exist
  clConn,       \* c.conn: "nil" or the connectivity state of the connection
  clBuiltOn,    \* the provider the connection's adapter was built on, 0: none
  \* ---- GrpcClientManager ----
  mgrServices,  \* m.services: the registered service names
  mgrClients,   \* m.clients: serviceName -> client
  getPc,        \* per caller of GetClient: "idle" | "slow" (wants m.mu.Lock)
  getArg,       \* the serviceName of the caller's GetClient
  getOut        \* what the caller's last GetClient returned: client, error

storeVars == <<kvs, leases, streamOwner>>
registryVars == <<regPc, regArgs, leaseID, leaseKeep, clientClosed, regErr,
                  keepLoop, keepWarned>>
pickerVars == <<pickerKind, subConns, next, picks, lastPick, connWeights>>
registrarVars == <<services, srMetadata, srCancelled, keepAliveTicker, tickReady,
                   hbPc, srClosed, keepAliveCalls>>
watchVars == <<watchers, resolverClosed, watchCancelled, pending, adPc, hand,
               adCtxCancelled, adClosed, ccState>>
staticVars == <<staticAddresses, staticResolve, staticWatch>>
serverVars == <<srvPc, srvConfig, exited>>
loggerVars == <<logLevel, logged, lastLog>>
clientVars == <<schemeTable, clSd, clAddress, clConn, clBuiltOn,
                mgrServices, mgrClients, getPc, getArg, getOut>>
vars == <<storeVars, registryVars, resolveOut, pickerVars, registrarVars, watchVars,
          staticVars, serverVars, loggerVars, clientVars>>

\* what the store and EtcdRegistry leave alone
outsideEtcd == <<resolveOut, pickerVars, registrarVars, watchVars, staticVars,
                 serverVars, loggerVars, clientVars>>
\* what the calls on EtcdRegistry leave alone, the start of the goroutine in
\* Register aside
outsideRegistry == <<keepLoop, keepWarned, outsideEtcd>>
\* what a Resolve call leaves alone
outsideResolve == <<storeVars, registryVars, pickerVars, registrarVars, watchVars,
                    staticVars, serverVars, loggerVars, clientVars>>
\* what the picker leaves alone
outsidePicker == <<storeVars, registryVars, resolveOut, registrarVars, watchVars,
                   staticVars, serverVars, loggerVars, clientVars>>
\* what EtcdResolver's watches and the adapters leave alone, the store aside
outsideWatch == <<leases, streamOwner, registryVars, resolveOut, pickerVars,
                  registrarVars, staticVars, serverVars, loggerVars, clientVars>>
\* what ServiceRegistrar and StaticRegistry leave alone
outsideRegistrar == <<storeVars, registryVars, resolveOut, pickerVars, watchVars,
                      staticVars, serverVars, loggerVars, clientVars>>
\* what StaticResolver leaves alone
outsideStatic == <<storeVars, registryVars, resolveOut, pickerVars, registrarVars,
                   watchVars, serverVars, loggerVars, clientVars>>
\* what the Logger leaves alone; Fatal ends the process
outsideLogger == <<storeVars, registryVars, resolveOut, pickerVars, registrarVars,
                   watchVars, staticVars, srvPc, srvConfig, clientVars>>
\* what GrpcServer leaves alone, the registries it works through aside
outsideServer == <<resolveOut, pickerVars, registrarVars, watchVars, staticVars,
                   loggerVars, clientVars>>
\* what NewClient, Client and GrpcClientManager leave alone
outsideClient == <<storeVars, registryVars, resolveOut, pickerVars, registrarVars,
                   watchVars, staticVars, serverVars, loggerVars>>

Registries == 1..NumRegistries
LeaseIds == 1..MaxLease

(***************************************************************************)
(* EtcdResolver.Resolve                                                    *)
(***************************************************************************)
\* the range read r.client.Get(ctx, key, WithPrefix()): keys in byte order
GetWithPrefix(store, key) ==
  SortKeys({ k \in DOMAIN store : HasPrefix(k, key) })

\* the loop of Resolve without its seen map: every record's address is kept
RECURSIVE CollectAddressesNoSeen(_, _)
CollectAddressesNoSeen(keys, addresses) ==
  IF keys = <<>> THEN addresses
  ELSE LET parts == Split(Head(keys))
       IN  CollectAddressesNoSeen(Tail(keys), Append(addresses, parts[Len(parts)]))

\* the loop of Resolve over resp.Kvs: last path segment, unless seen
RECURSIVE CollectAddresses(_, _)
CollectAddresses(keys, addresses) ==
  IF keys = <<>> THEN addresses
  ELSE LET parts == Split(Head(keys))
           addr  == parts[Len(parts)]
       IN  IF addr \in SeqToSet(addresses)
             THEN CollectAddresses(Tail(keys), addresses)
             ELSE CollectAddresses(Tail(keys), Append(addresses, addr))

\* Resolve(ctx, serviceName) given the outcome of the Get round trip
Resolve(store, serviceName, getOk) ==
  LET key       == PathJoin(<<DefaultEtcdPrefix, serviceName>>)
      addresses == CollectAddresses(GetWithPrefix(store, key), <<>>)
  IN  IF ~getOk THEN [err |-> TRUE, addresses |-> <<>>]
      ELSE IF Len(addresses) = 0 THEN [err |-> TRUE, addresses |-> <<>>]
      ELSE [err |-> FALSE, addresses |-> addresses]

(***************************************************************************)
(* The coordination store's operations, as one round trip each.            *)
(***************************************************************************)
ServiceKey(serviceName, address) ==
  PathJoin(<<DefaultEtcdPrefix, serviceName, address>>)

\* the keys bound to lease l are dropped when the lease ends
KeysOfLease(store, l) == { k \in DOMAIN store : store[k] = l }

DropKeys(store, K) == [k \in (DOMAIN store) \ K |-> store[k]]

FreeLeases == { l \in LeaseIds : leases[l] = "free" }

\* a Register that revokes the lease it holds before it takes the new one
RegisterGrantRevoking(r, serviceName, address) ==
  /\ regPc[r] = "idle"
  /\ FreeLeases # {}
  /\ \E grantOk \in BOOLEAN :
       LET l   == CHOOSE x \in FreeLeases : \A y \in FreeLeases : x <= y
           old == leaseID[r]
       IN  IF grantOk /\ ~clientClosed[r]
             THEN /\ leases' = [leases EXCEPT ![l] = "alive",
                                              ![old] = IF old # 0 THEN "gone" ELSE @]
                  /\ kvs' = IF old # 0 THEN DropKeys(kvs, KeysOfLease(kvs, old))
                            ELSE kvs
                  /\ leaseID' = [leaseID EXCEPT ![r] = l]
                  /\ regPc' = [regPc EXCEPT ![r] = "put"]
                  /\ regArgs' = [regArgs EXCEPT ![r] = <<serviceName, address>>]
                  /\ UNCHANGED regErr
             ELSE /\ regErr' = [regErr EXCEPT ![r] = TRUE]
                  /\ UNCHANGED <<kvs, leases, leaseID, regPc, regArgs>>
  /\ UNCHANGED <<streamOwner, leaseKeep, clientClosed, outsideRegistry>>

(***************************************************************************)
(* EtcdRegistry.Register: Grant, Put with the lease, start of KeepAlive,  *)
(* all under r.mu.                                                          *)
(***************************************************************************)
RegisterGrant(r, serviceName, address) ==
  /\ regPc[r] = "idle"
  /\ FreeLeases # {}
  /\ \E grantOk \in BOOLEAN :
       LET l == CHOOSE x \in FreeLeases : \A y \in FreeLeases : x <= y
       IN  IF grantOk /\ ~clientClosed[r]
             THEN /\ leases' = [leases EXCEPT ![l] = "alive"]
                  /\ leaseID' = [leaseID EXCEPT ![r] = l]
                  /\ regPc' = [regPc EXCEPT ![r] = "put"]
                  /\ regArgs' = [regArgs EXCEPT ![r] = <<serviceName, address>>]
                  /\ UNCHANGED regErr
             ELSE /\ regErr' = [regErr EXCEPT ![r] = TRUE]
                  /\ UNCHANGED <<leases, leaseID, regPc, regArgs>>
  /\ UNCHANGED <<kvs, streamOwner, leaseKeep, clientClosed, outsideRegistry>>

RegisterPut(r) ==
  /\ regPc[r] = "put"
  /\ \E putOk \in BOOLEAN :
       LET key == ServiceKey(regArgs[r][1], regArgs[r][2])
       IN  IF putOk /\ leases[leaseID[r]] = "alive"
             THEN /\ kvs' = [k \in DOMAIN kvs \cup {key} |->
                               IF k = key THEN leaseID[r] ELSE kvs[k]]
                  /\ regPc' = [regPc EXCEPT ![r] = "keepalive"]
                  /\ UNCHANGED <<regErr, regArgs>>
             ELSE /\ regPc' = [regPc EXCEPT ![r] = "idle"]
                  /\ regErr' = [regErr EXCEPT ![r] = TRUE]
                  /\ regArgs' = [regArgs EXCEPT ![r] = <<>>]
                  /\ UNCHANGED kvs
  /\ UNCHANGED <<leases, streamOwner, leaseID, leaseKeep, clientClosed,
                 outsideRegistry>>

RegisterKeepAlive(r) ==
  /\ regPc[r] = "keepalive"
  /\ \E keepOk \in BOOLEAN :
       IF keepOk
         THEN /\ leaseKeep' = [leaseKeep EXCEPT ![r] = leaseID[r]]
              /\ keepLoop' = [keepLoop EXCEPT ![leaseID[r]] = "ranging"]
              /\ streamOwner' = [streamOwner EXCEPT ![leaseID[r]] =
                                   IF leases[leaseID[r]] = "alive" THEN r ELSE 0]
              /\ regErr' = [regErr EXCEPT ![r] = FALSE]
         ELSE /\ leaseKeep' = [leaseKeep EXCEPT ![r] = 0]
              /\ regErr' = [regErr EXCEPT ![r] = TRUE]
              /\ UNCHANGED <<streamOwner, keepLoop>>
  /\ regPc' = [regPc EXCEPT ![r] = "idle"]
  /\ regArgs' = [regArgs EXCEPT ![r] = <<>>]
  /\ UNCHANGED <<kvs, leases, leaseID, clientClosed, keepWarned, outsideEtcd>>

(***************************************************************************)
(* EtcdRegistry.Deregister: Revoke of the held lease (if r.leaseID # 0),   *)
(* then the Delete of the key, under r.mu.                                  *)
(***************************************************************************)
DeregisterRevoke(r, serviceName, address) ==
  /\ regPc[r] = "idle"
  /\ regArgs' = [regArgs EXCEPT ![r] = <<serviceName, address>>]
  /\ IF leaseID[r] # 0
       THEN \E revokeOk \in BOOLEAN :
              LET l    == leaseID[r]
                  done == revokeOk /\ ~clientClosed[r] /\ leases[l] = "alive"
              IN  /\ kvs' = IF done THEN DropKeys(kvs, KeysOfLease(kvs, l)) ELSE kvs
                  /\ leases' = IF done THEN [leases EXCEPT ![l] = "gone"] ELSE leases
                  /\ streamOwner' = IF done THEN [streamOwner EXCEPT ![l] = 0]
                                    ELSE streamOwner
                  /\ leaseID' = [leaseID EXCEPT ![r] = 0]
                  /\ leaseKeep' = [leaseKeep EXCEPT ![r] = 0]
                  /\ regPc' = [regPc EXCEPT ![r] = "delete"]
       ELSE /\ regPc' = [regPc EXCEPT ![r] = "deleteOnly"]
            /\ UNCHANGED <<kvs, leases, streamOwner, leaseID, leaseKeep>>
  /\ UNCHANGED <<clientClosed, regErr, outsideRegistry>>

DeregisterDelete(r) ==
  /\ regPc[r] \in {"delete", "deleteOnly"}
  /\ regPc' = [regPc EXCEPT ![r] = "idle"]
  /\ regArgs' = [regArgs EXCEPT ![r] = <<>>]
  /\ \E deleteOk \in BOOLEAN :
       LET key == ServiceKey(regArgs[r][1], regArgs[r][2])
       IN  IF deleteOk /\ ~clientClosed[r]
             THEN /\ kvs' = DropKeys(kvs, {key})
                  /\ regErr' = [regErr EXCEPT ![r] = FALSE]
             ELSE /\ regErr' = [regErr EXCEPT ![r] = TRUE]
                  /\ UNCHANGED kvs
  /\ UNCHANGED <<leases, streamOwner, leaseID, leaseKeep, clientClosed,
                 outsideRegistry>>

(***************************************************************************)
(* EtcdRegistry.KeepAlive: one KeepAliveOnce on the held lease.            *)
(***************************************************************************)
KeepAlive(r, serviceName, address) ==
  /\ regPc[r] = "idle"
  /\ \E onceOk \in BOOLEAN :
       regErr' = [regErr EXCEPT ![r] =
                    \/ leaseID[r] = 0
                    \/ ~onceOk
                    \/ clientClosed[r]
                    \/ leases[leaseID[r]] # "alive"]
  /\ UNCHANGED <<storeVars, regPc, regArgs, leaseID, leaseKeep, clientClosed,
                 outsideRegistry>>

(***************************************************************************)
(* EtcdRegistry.Close: Revoke of the held lease (result dropped), then     *)
(* r.client.Close(), which ends the keep-alive streams of this client.     *)
(***************************************************************************)
RegistryClose(r) ==
  /\ regPc[r] = "idle"
  /\ \E revokeOk \in BOOLEAN, closeOk \in BOOLEAN :
       LET l    == leaseID[r]
           done == l # 0 /\ revokeOk /\ ~clientClosed[r] /\ leases[l] = "alive"
       IN  /\ kvs' = IF done THEN DropKeys(kvs, KeysOfLease(kvs, l)) ELSE kvs
           /\ leases' = IF done THEN [leases EXCEPT ![l] = "gone"] ELSE leases
           /\ regErr' = [regErr EXCEPT ![r] = ~closeOk]
  /\ streamOwner' = [l \in LeaseIds |-> IF streamOwner[l] = r THEN 0
                                         ELSE streamOwner[l]]
  /\ leaseID' = [leaseID EXCEPT ![r] = 0]
  /\ leaseKeep' = [leaseKeep EXCEPT ![r] = 0]
  /\ clientClosed' = [clientClosed EXCEPT ![r] = TRUE]
  /\ UNCHANGED <<regPc, regArgs, outsideRegistry>>

(***************************************************************************)
(* The store's own steps: a keep-alive stream is lost (connectivity), a    *)
(* lease that is not kept alive runs out and takes its keys with it.       *)
(***************************************************************************)
StreamLost(l) ==
  /\ streamOwner[l] # 0
  /\ streamOwner' = [streamOwner EXCEPT ![l] = 0]
  /\ UNCHANGED <<kvs, leases, registryVars, outsideRegistry>>

LeaseExpire(l) ==
  /\ leases[l] = "alive"
  /\ streamOwner[l] = 0
  /\ leases' = [leases EXCEPT ![l] = "gone"]
  /\ kvs' = DropKeys(kvs, KeysOfLease(kvs, l))
  /\ UNCHANGED <<streamOwner, registryVars, outsideRegistry>>

(***************************************************************************)
(* The goroutine of Register: for ka := range r.leaseKeep, with a warning  *)
(* and a return when ka == nil.  The store's client sends the responses    *)
(* to the channel and closes it when the stream ends; a range over a       *)
(* closed channel ends without running its body.                            *)
(***************************************************************************)
\* what the client sends on a keep-alive channel: responses, never nil
KeepAliveResponses == {"response"}

\* one value is received from the open channel of lease l
KeepLoopReceive(l) ==
  /\ keepLoop[l] = "ranging"
  /\ streamOwner[l] # 0
  /\ \E ka \in KeepAliveResponses :
       IF ka = "nil"
         THEN /\ keepWarned' = [keepWarned EXCEPT ![l] = TRUE]
              /\ keepLoop' = [keepLoop EXCEPT ![l] = "ended"]
         ELSE UNCHANGED <<keepLoop, keepWarned>>
  /\ UNCHANGED <<storeVars, regPc, regArgs, leaseID, leaseKeep, clientClosed,
                 regErr, outsideEtcd>>

\* the channel of lease l was closed: the range loop ends, the goroutine too
KeepLoopEnd(l) ==
  /\ keepLoop[l] = "ranging"
  /\ streamOwner[l] = 0
  /\ keepLoop' = [keepLoop EXCEPT ![l] = "ended"]
  /\ UNCHANGED <<storeVars, regPc, regArgs, leaseID, leaseKeep, clientClosed,
                 regErr, keepWarned, outsideEtcd>>

\* r.mu of registry r is held: Register, Deregister, KeepAlive and Close take
\* it on entry and release it on return (defer), so it is held whenever a
\* call is between two of its statements
MuHeld(r) == regPc[r] # "idle"

\* a call on registry r has a store round trip still to make: the Put or the
\* start of KeepAlive of Register, the Delete of Deregister
RoundTripAhead(r) == regPc[r] \in {"put", "keepalive", "delete", "deleteOnly"}

InitStore ==
  /\ kvs = <<>>
  /\ leases = [l \in LeaseIds |-> "free"]
  /\ streamOwner = [l \in LeaseIds |-> 0]

InitRegistry ==
  /\ regPc = [r \in Registries |-> "idle"]
  /\ regArgs = [r \in Registries |-> <<>>]
  /\ leaseID = [r \in Registries |-> 0]
  /\ leaseKeep = [r \in Registries |-> 0]
  /\ clientClosed = [r \in Registries |-> FALSE]
  /\ regErr = [r \in Registries |-> FALSE]
  /\ keepLoop = [l \in LeaseIds |-> "none"]
  /\ keepWarned = [l \in LeaseIds |-> FALSE]

\* the weights instances register with: the default 1, and a larger one
Weights == {1, 5}

InitPicker(weights) ==
  /\ pickerKind = "none"
  /\ subConns = <<>>
  /\ next = 0
  /\ picks = <<>>
  /\ lastPick = [conn |-> 0, err |-> "none"]
  /\ connWeights \in [1..MaxConns -> weights]

\* metadata["weight"] as NewServiceRegistrar may get it: absent, "5", "x"
WeightStrings == { <<>>, <<"5">>, <<"x">> }

InitRegistrar(weights) ==
  /\ services = <<>>
  /\ srMetadata \in weights
  /\ srCancelled = FALSE
  /\ keepAliveTicker = "nil"
  /\ tickReady = FALSE
  /\ hbPc = "none"
  /\ srClosed = FALSE
  /\ keepAliveCalls = 0

InitWatch ==
  /\ watchers = <<>>
  /\ resolverClosed = FALSE
  /\ watchCancelled = [i \in 1..NumAdapters |-> FALSE]
  /\ pending = [i \in 1..NumAdapters |-> FALSE]
  /\ adPc = [i \in 1..NumAdapters |-> "unbuilt"]
  /\ hand = [i \in 1..NumAdapters |-> <<>>]
  /\ adCtxCancelled = [i \in 1..NumAdapters |-> FALSE]
  /\ adClosed = [i \in 1..NumAdapters |-> FALSE]
  /\ ccState = [i \in 1..NumAdapters |-> <<>>]

\* NewStaticResolver(addresses), addresses drawn from lists
InitStatic(lists) ==
  /\ staticAddresses \in lists
  /\ staticResolve = [called |-> FALSE, err |-> FALSE, addresses |-> <<>>]
  /\ staticWatch = [called |-> FALSE, err |-> FALSE, delivered |-> <<>>]

InitServer ==
  /\ srvPc = "none"
  /\ srvConfig = <<>>
  /\ exited = FALSE

\* NewLogger(config): l.level is config.Level, nothing written yet
InitLogger(levels) ==
  /\ logLevel \in levels
  /\ logged = <<>>
  /\ lastLog = <<>>

Providers == 1..NumProviders
Clients == 1..MaxClients
Callers == 1..NumCallers

\* nothing registered but what table holds, no client made, an empty manager
InitClientWith(table) ==
  /\ schemeTable = table
  /\ clSd = [c \in Clients |-> 0]
  /\ clAddress = [c \in Clients |-> <<>>]
  /\ clConn = [c \in Clients |-> "nil"]
  /\ clBuiltOn = [c \in Clients |-> 0]
  /\ mgrServices = {}
  /\ mgrClients = <<>>
  /\ getPc = [t \in Callers |-> "idle"]
  /\ getArg = [t \in Callers |-> <<>>]
  /\ getOut = [t \in Callers |-> [client |-> 0, err |-> FALSE]]

InitClient == InitClientWith(<<>>)

InitResolveOut ==
  resolveOut = [name |-> <<>>, getOk |-> FALSE,
                result |-> [err |-> TRUE, addresses |-> <<>>]]

Init ==
  /\ InitStore
  /\ InitRegistry
  /\ InitResolveOut
  /\ InitPicker({1})
  /\ InitRegistrar({<<>>})
  /\ InitWatch
  /\ InitStatic({<<>>})
  /\ InitServer
  /\ InitClient
  /\ InitLogger({LevelInfo})

Next ==
  \/ \E r \in Registries, s \in ServiceNames, a \in Addresses :
       \/ RegisterGrant(r, s, a)
       \/ DeregisterRevoke(r, s, a)
       \/ KeepAlive(r, s, a)
  \/ \E r \in Registries :
       \/ RegisterPut(r)
       \/ RegisterKeepAlive(r)
       \/ DeregisterDelete(r)
       \/ RegistryClose(r)
  \/ \E l \in LeaseIds : StreamLost(l) \/ LeaseExpire(l)

Spec == Init /\ [][Next]_vars

\* the same provider calls made by the first NumRegistering providers only,
\* for one service name: Register, Deregister and Close in every order
RegisteringRegistries == { r \in Registries : r <= NumRegistering }

NextReRegister ==
  \/ \E r \in RegisteringRegistries, a \in Addresses :
       \/ RegisterGrant(r, <<"o">>, a)
       \/ DeregisterRevoke(r, <<"o">>, a)
  \/ \E r \in RegisteringRegistries :
       \/ RegisterPut(r)
       \/ RegisterKeepAlive(r)
       \/ DeregisterDelete(r)
       \/ RegistryClose(r)

SpecReRegister == Init /\ [][NextReRegister]_vars

\* the same with the store's own steps and the goroutines of Register
NextLeaseLoss ==
  \/ NextReRegister
  \/ \E l \in LeaseIds :
       \/ StreamLost(l)
       \/ LeaseExpire(l)
       \/ KeepLoopReceive(l)
       \/ KeepLoopEnd(l)

SpecLeaseLoss == Init /\ [][NextLeaseLoss]_vars

(***************************************************************************)
(* EtcdResolver.Resolve as a function of the store: the store is drawn     *)
(* from the key sets Register can produce, a client calls Resolve.         *)
(***************************************************************************)
AllKeys == { ServiceKey(s, a) : s \in ServiceNames, a \in Addresses }

InitResolve ==
  /\ \E K \in SUBSET AllKeys : kvs \in [K -> LeaseIds]
  /\ leases = [l \in LeaseIds |->
                 IF \E k \in DOMAIN kvs : kvs[k] = l THEN "alive" ELSE "free"]
  /\ streamOwner = [l \in LeaseIds |-> 0]
  /\ InitRegistry
  /\ InitResolveOut
  /\ InitPicker({1})
  /\ InitRegistrar({<<>>})
  /\ InitWatch
  /\ InitStatic({<<>>})
  /\ InitServer
  /\ InitClient
  /\ InitLogger({LevelInfo})

ResolveCall(serviceName) ==
  /\ \E getOk \in BOOLEAN :
       resolveOut' = [name |-> serviceName, getOk |-> getOk,
                      result |-> Resolve(kvs, serviceName, getOk)]
  /\ UNCHANGED outsideResolve

NextResolve == \E s \in ServiceNames : ResolveCall(s)

SpecResolve == InitResolve /\ [][NextResolve]_vars

(***************************************************************************)
(* roundRobinPickerBuilder.Build and roundRobinPicker.Pick.                *)
(***************************************************************************)
Conns == 1..MaxConns

\* the orders in which the range over the map info.ReadySCs can run
Orders(S) ==
  { q \in [1..Cardinality(S) -> S] : \A i, j \in DOMAIN q : i # j => q[i] # q[j] }

Build(ready) ==
  /\ IF ready = {}
       THEN /\ pickerKind' = "err"
            /\ subConns' = <<>>
       ELSE /\ pickerKind' = "rr"
            /\ subConns' \in Orders(ready)
  /\ next' = 0
  /\ picks' = <<>>
  /\ lastPick' = [conn |-> 0, err |-> "none"]
  /\ UNCHANGED <<connWeights, outsidePicker>>

\* a roundRobinPicker made without Build: the zero value, no connections
EmptyPicker ==
  /\ pickerKind' = "rr"
  /\ subConns' = <<>>
  /\ next' = 0
  /\ picks' = <<>>
  /\ lastPick' = [conn |-> 0, err |-> "none"]
  /\ UNCHANGED <<connWeights, outsidePicker>>

\* p.next is never advanced
NextIndexStuck(n, len) == n

\* p.next = (p.next + 1) % len(p.subConns)
NextIndex(n, len) == (n + 1) % len

\* Pick without the guards for "no connection": an empty PickResult, no error
PickUnguarded ==
  /\ pickerKind # "none"
  /\ Len(picks) < MaxPicks
  /\ IF pickerKind = "err" \/ Len(subConns) = 0
       THEN /\ lastPick' = [conn |-> 0, err |-> "nil"]
            /\ UNCHANGED <<picks, next>>
       ELSE /\ lastPick' = [conn |-> subConns[next + 1], err |-> "nil"]
            /\ picks' = Append(picks, subConns[next + 1])
            /\ next' = NextIndex(next, Len(subConns))
  /\ UNCHANGED <<pickerKind, subConns, connWeights, outsidePicker>>

\* a Pick that stays on a connection for as many picks as its weight
PickWeighted ==
  /\ pickerKind # "none"
  /\ Len(picks) < MaxPicks
  /\ IF pickerKind = "err"
       THEN /\ lastPick' = [conn |-> 0, err |-> "ErrNoSubConnAvailable"]
            /\ UNCHANGED <<picks, next>>
       ELSE IF Len(subConns) = 0
         THEN /\ lastPick' = [conn |-> 0, err |-> "no subconnections available"]
              /\ UNCHANGED <<picks, next>>
         ELSE LET sc   == subConns[next + 1]
                  used == Cardinality({ i \in 1..Len(picks) : picks[i] = sc }) + 1
              IN  /\ lastPick' = [conn |-> sc, err |-> "nil"]
                  /\ picks' = Append(picks, sc)
                  /\ next' = IF used % connWeights[sc] = 0
                               THEN NextIndex(next, Len(subConns)) ELSE next
  /\ UNCHANGED <<pickerKind, subConns, connWeights, outsidePicker>>

\* Pick.  The picker of base.NewErrPicker returns the error it was made
\* with; roundRobinPicker.Pick runs under p.mu from its first to its last
\* statement and returns an error before it touches p.next when
\* len(p.subConns) == 0
Pick ==
  /\ pickerKind # "none"
  /\ Len(picks) < MaxPicks
  /\ IF pickerKind = "err"
       THEN /\ lastPick' = [conn |-> 0, err |-> "ErrNoSubConnAvailable"]
            /\ UNCHANGED <<picks, next>>
       ELSE IF Len(subConns) = 0
         THEN /\ lastPick' = [conn |-> 0, err |-> "no subconnections available"]
              /\ UNCHANGED <<picks, next>>
         ELSE /\ lastPick' = [conn |-> subConns[next + 1], err |-> "nil"]
              /\ picks' = Append(picks, subConns[next + 1])
              /\ next' = NextIndex(next, Len(subConns))
  /\ UNCHANGED <<pickerKind, subConns, connWeights, outsidePicker>>

NextPicker ==
  \/ \E ready \in SUBSET Conns : Build(ready)
  \/ EmptyPicker
  \/ Pick

InitWithPicker ==
  /\ InitStore
  /\ InitRegistry
  /\ InitResolveOut
  /\ InitPicker(Weights)
  /\ InitRegistrar({<<>>})
  /\ InitWatch
  /\ InitStatic({<<>>})
  /\ InitServer
  /\ InitClient
  /\ InitLogger({LevelInfo})

SpecPicker == InitWithPicker /\ [][NextPicker]_vars

(***************************************************************************)
(* StaticRegistry.                                                         *)
(***************************************************************************)
\* fmt.Sscanf(val, "%d", &result): the leading decimal digits; an error when
\* there is none
DigitValue(c) == CASE c = "1" -> 1 [] c = "5" -> 5 [] OTHER -> -1

RECURSIVE ScanDigits(_, _)
ScanDigits(str, acc) ==
  IF str = <<>> \/ DigitValue(Head(str)) < 0 THEN acc
  ELSE ScanDigits(Tail(str), 10 * acc + DigitValue(Head(str)))

parseInt(val) ==
  IF val = <<>> \/ DigitValue(Head(val)) < 0
    THEN [err |-> TRUE, result |-> 0]
    ELSE [err |-> FALSE, result |-> ScanDigits(val, 0)]

\* Register: Weight 1 unless metadata["weight"] parses
ServiceInfo(address, weight) ==
  [Address |-> address,
   Weight  |-> IF weight # <<>> /\ ~parseInt(weight).err
                 THEN parseInt(weight).result ELSE 1]

ServicesOf(svcs, serviceName) ==
  IF serviceName \in DOMAIN svcs THEN svcs[serviceName] ELSE <<>>

StaticRegister(svcs, serviceName, address, weight) ==
  [s \in DOMAIN svcs \cup {serviceName} |->
     IF s = serviceName
       THEN Append(ServicesOf(svcs, s), ServiceInfo(address, weight))
       ELSE svcs[s]]

\* Deregister: the first entry with the address is cut out of the list
StaticDeregister(svcs, serviceName, address) ==
  IF serviceName \notin DOMAIN svcs THEN svcs
  ELSE LET list == svcs[serviceName]
           hits == { i \in 1..Len(list) : list[i].Address = address }
       IN  IF hits = {} THEN svcs
           ELSE LET i == CHOOSE x \in hits : \A y \in hits : x <= y
                IN  [svcs EXCEPT ![serviceName] =
                       SubSeq(list, 1, i - 1) \o SubSeq(list, i + 1, Len(list))]

(***************************************************************************)
(* ServiceRegistrar for the instance ("o", "a") over the StaticRegistry.   *)
(***************************************************************************)
SrServiceName == <<"o">>
SrAddress == <<"a">>

SrRegister ==
  /\ Len(ServicesOf(services, SrServiceName)) < MaxServices
  /\ services' = StaticRegister(services, SrServiceName, SrAddress, srMetadata)
  /\ UNCHANGED <<srMetadata, srCancelled, keepAliveTicker, tickReady, hbPc,
                 srClosed, keepAliveCalls, outsideRegistrar>>

\* the ticker is created and the heartbeat goroutine started
StartKeepAlive ==
  /\ hbPc = "none"
  /\ keepAliveTicker' = "running"
  /\ hbPc' = "select"
  /\ UNCHANGED <<services, srMetadata, srCancelled, tickReady, srClosed,
                 keepAliveCalls, outsideRegistrar>>

\* the runtime sends a tick; it is dropped when one already waits
TickerFire ==
  /\ keepAliveTicker = "running"
  /\ ~tickReady
  /\ tickReady' = TRUE
  /\ UNCHANGED <<services, srMetadata, srCancelled, keepAliveTicker, hbPc,
                 srClosed, keepAliveCalls, outsideRegistrar>>

\* select: case <-sr.ctx.Done()
HeartbeatDone ==
  /\ hbPc = "select"
  /\ srCancelled
  /\ hbPc' = "done"
  /\ UNCHANGED <<services, srMetadata, srCancelled, keepAliveTicker, tickReady,
                 srClosed, keepAliveCalls, outsideRegistrar>>

\* select: case <-sr.keepAliveTicker.C (chosen at random when both are ready)
HeartbeatTick ==
  /\ hbPc = "select"
  /\ tickReady
  /\ tickReady' = FALSE
  /\ hbPc' = "tick"
  /\ UNCHANGED <<services, srMetadata, srCancelled, keepAliveTicker, srClosed,
                 keepAliveCalls, outsideRegistrar>>

\* sr.registry.KeepAlive(sr.ctx, ...): StaticRegistry.KeepAlive returns nil
HeartbeatKeepAlive ==
  /\ hbPc = "tick"
  /\ keepAliveCalls < MaxKeepAliveCalls
  /\ keepAliveCalls' = keepAliveCalls + 1
  /\ hbPc' = "select"
  /\ UNCHANGED <<services, srMetadata, srCancelled, keepAliveTicker, tickReady,
                 srClosed, outsideRegistrar>>

SrDeregister ==
  /\ keepAliveTicker' = IF keepAliveTicker # "nil" THEN "stopped" ELSE "nil"
  /\ services' = StaticDeregister(services, SrServiceName, SrAddress)
  /\ UNCHANGED <<srMetadata, srCancelled, tickReady, hbPc, srClosed,
                 keepAliveCalls, outsideRegistrar>>

\* sr.cancel(), then StaticRegistry.Close, which does nothing
SrClose ==
  /\ srCancelled' = TRUE
  /\ srClosed' = TRUE
  /\ UNCHANGED <<services, srMetadata, keepAliveTicker, tickReady, hbPc,
                 keepAliveCalls, outsideRegistrar>>

NextRegistrar ==
  \/ SrRegister
  \/ StartKeepAlive
  \/ TickerFire
  \/ HeartbeatDone
  \/ HeartbeatTick
  \/ HeartbeatKeepAlive
  \/ SrDeregister
  \/ SrClose

InitWithRegistrar ==
  /\ InitStore
  /\ InitRegistry
  /\ InitResolveOut
  /\ InitPicker({1})
  /\ InitRegistrar(WeightStrings)
  /\ InitWatch
  /\ InitStatic({<<>>})
  /\ InitServer
  /\ InitClient
  /\ InitLogger({LevelInfo})

SpecRegistrar == InitWithRegistrar /\ [][NextRegistrar]_vars

(***************************************************************************)
(* EtcdResolver.Watch and Close, and serviceResolver (the adapter that     *)
(* resolverBuilder.Build creates).  Every adapter resolves WatchedService  *)
(* on the one shared EtcdResolver.  adPc[i] runs through                   *)
(*   unbuilt -> built -> resolve -> update -> watch          (start)       *)
(*   -> wresolve -> wcb -> wincb -> wopen                    (Watch)       *)
(*   -> select <-> tresolve -> tcb -> tincb                  (watch task)  *)
(* and ends in "end" (start returned without Watch) or "exit" (the task    *)
(* returned).                                                               *)
(***************************************************************************)
Adapters == 1..NumAdapters

\* r.target.Endpoint()
WatchedService == <<"o">>

\* the keys that servers outside the model register and deregister
WatchKeys ==
  { ServiceKey(<<"o">>, <<"a">>), ServiceKey(<<"o", "v">>, <<"a">>) }

TaskPcs == {"select", "tresolve", "tcb", "tincb"}

\* watchCtx is derived from the adapter's r.ctx: done when either is cancelled
WatchCtxDone(i) == watchCancelled[i] \/ adCtxCancelled[i]

\* r.Resolve(ctx, serviceName): the Get fails on a done context or closed client
ResolveCtx(ctxDone, getOk) ==
  Resolve(kvs, WatchedService, getOk /\ ~ctxDone /\ ~resolverClosed)

\* serviceResolver.updateState: nothing for an empty list, else cc.UpdateState
updateState(i, addresses) ==
  ccState' = IF Len(addresses) = 0 THEN ccState
             ELSE [ccState EXCEPT ![i] = addresses]

\* resolverBuilder.Build: the resolver is returned, go r.start() is pending
AdapterBuild(i) ==
  /\ adPc[i] = "unbuilt"
  /\ adPc' = [adPc EXCEPT ![i] = "built"]
  /\ UNCHANGED <<kvs, watchers, resolverClosed, watchCancelled, pending, hand,
                 adCtxCancelled, adClosed, ccState, outsideWatch>>

\* start: r.ctx, r.cancel = context.WithCancel(context.Background())
AdapterStart(i) ==
  /\ adPc[i] = "built"
  /\ adPc' = [adPc EXCEPT ![i] = "resolve"]
  /\ adCtxCancelled' = [adCtxCancelled EXCEPT ![i] = FALSE]
  /\ UNCHANGED <<kvs, watchers, resolverClosed, watchCancelled, pending, hand,
                 adClosed, ccState, outsideWatch>>

\* start: the first Resolve; on an error start returns
AdapterResolve(i) ==
  /\ adPc[i] = "resolve"
  /\ \E getOk \in BOOLEAN :
       LET res == ResolveCtx(adCtxCancelled[i], getOk)
       IN  IF res.err
             THEN /\ adPc' = [adPc EXCEPT ![i] = "end"]
                  /\ UNCHANGED hand
             ELSE /\ adPc' = [adPc EXCEPT ![i] = "update"]
                  /\ hand' = [hand EXCEPT ![i] = res.addresses]
  /\ UNCHANGED <<kvs, watchers, resolverClosed, watchCancelled, pending,
                 adCtxCancelled, adClosed, ccState, outsideWatch>>

\* start: r.updateState(addresses), then the goroutine that calls Watch
AdapterUpdate(i) ==
  /\ adPc[i] = "update"
  /\ updateState(i, hand[i])
  /\ hand' = [hand EXCEPT ![i] = <<>>]
  /\ adPc' = [adPc EXCEPT ![i] = "watch"]
  /\ UNCHANGED <<kvs, watchers, resolverClosed, watchCancelled, pending,
                 adCtxCancelled, adClosed, outsideWatch>>

\* Watch, under r.mu: cancel the stored watcher, store the new cancel
WatchRegister(i) ==
  /\ adPc[i] = "watch"
  /\ watchCancelled' =
       IF WatchedService \in DOMAIN watchers
         THEN [watchCancelled EXCEPT ![watchers[WatchedService]] = TRUE]
         ELSE watchCancelled
  /\ watchers' = [s \in DOMAIN watchers \cup {WatchedService} |->
                    IF s = WatchedService THEN i ELSE watchers[s]]
  /\ adPc' = [adPc EXCEPT ![i] = "wresolve"]
  /\ UNCHANGED <<kvs, resolverClosed, pending, hand, adCtxCancelled, adClosed,
                 ccState, outsideWatch>>

\* Watch: the first Resolve, with watchCtx
WatchResolve(i) ==
  /\ adPc[i] = "wresolve"
  /\ \E getOk \in BOOLEAN :
       LET res == ResolveCtx(WatchCtxDone(i), getOk)
       IN  IF res.err
             THEN /\ adPc' = [adPc EXCEPT ![i] = "wopen"]
                  /\ UNCHANGED hand
             ELSE /\ adPc' = [adPc EXCEPT ![i] = "wcb"]
                  /\ hand' = [hand EXCEPT ![i] = res.addresses]
  /\ UNCHANGED <<kvs, watchers, resolverClosed, watchCancelled, pending,
                 adCtxCancelled, adClosed, ccState, outsideWatch>>

\* Watch: callback(addresses) is entered ...
WatchCallbackBegin(i) ==
  /\ adPc[i] = "wcb"
  /\ adPc' = [adPc EXCEPT ![i] = "wincb"]
  /\ UNCHANGED <<kvs, watchers, resolverClosed, watchCancelled, pending, hand,
                 adCtxCancelled, adClosed, ccState, outsideWatch>>

\* ... and runs r.updateState(addrs) and returns
WatchCallbackEnd(i) ==
  /\ adPc[i] = "wincb"
  /\ updateState(i, hand[i])
  /\ hand' = [hand EXCEPT ![i] = <<>>]
  /\ adPc' = [adPc EXCEPT ![i] = "wopen"]
  /\ UNCHANGED <<kvs, watchers, resolverClosed, watchCancelled, pending,
                 adCtxCancelled, adClosed, outsideWatch>>

\* Watch: r.client.Watch(watchCtx, key, WithPrefix()), go func, return nil
WatchOpen(i) ==
  /\ adPc[i] = "wopen"
  /\ adPc' = [adPc EXCEPT ![i] = "select"]
  /\ pending' = [pending EXCEPT ![i] = FALSE]
  /\ UNCHANGED <<kvs, watchers, resolverClosed, watchCancelled, hand,
                 adCtxCancelled, adClosed, ccState, outsideWatch>>

\* the task: case <-watchCtx.Done(): return
TaskDone(i) ==
  /\ adPc[i] = "select"
  /\ WatchCtxDone(i)
  /\ adPc' = [adPc EXCEPT ![i] = "exit"]
  /\ UNCHANGED <<kvs, watchers, resolverClosed, watchCancelled, pending, hand,
                 adCtxCancelled, adClosed, ccState, outsideWatch>>

\* the task: case watchResp := <-watchChan, a response with events
TaskReceive(i) ==
  /\ adPc[i] = "select"
  /\ pending[i]
  /\ pending' = [pending EXCEPT ![i] = FALSE]
  /\ adPc' = [adPc EXCEPT ![i] = "tresolve"]
  /\ UNCHANGED <<kvs, watchers, resolverClosed, watchCancelled, hand,
                 adCtxCancelled, adClosed, ccState, outsideWatch>>

\* the task: a response with watchResp.Canceled (the store ended the watch)
TaskCanceled(i) ==
  /\ adPc[i] = "select"
  /\ ~WatchCtxDone(i)
  /\ adPc' = [adPc EXCEPT ![i] = "exit"]
  /\ pending' = [pending EXCEPT ![i] = FALSE]
  /\ UNCHANGED <<kvs, watchers, resolverClosed, watchCancelled, hand,
                 adCtxCancelled, adClosed, ccState, outsideWatch>>

\* the task with a callback on every Resolve, failed or not
TaskResolveAlways(i) ==
  /\ adPc[i] = "tresolve"
  /\ \E getOk \in BOOLEAN :
       LET res == ResolveCtx(WatchCtxDone(i), getOk)
       IN  /\ adPc' = [adPc EXCEPT ![i] = "tcb"]
           /\ hand' = [hand EXCEPT ![i] = res.addresses]
  /\ UNCHANGED <<kvs, watchers, resolverClosed, watchCancelled, pending,
                 adCtxCancelled, adClosed, ccState, outsideWatch>>

\* the task: r.Resolve(watchCtx, serviceName)
TaskResolve(i) ==
  /\ adPc[i] = "tresolve"
  /\ \E getOk \in BOOLEAN :
       LET res == ResolveCtx(WatchCtxDone(i), getOk)
       IN  IF res.err
             THEN /\ adPc' = [adPc EXCEPT ![i] = "select"]
                  /\ UNCHANGED hand
             ELSE /\ adPc' = [adPc EXCEPT ![i] = "tcb"]
                  /\ hand' = [hand EXCEPT ![i] = res.addresses]
  /\ UNCHANGED <<kvs, watchers, resolverClosed, watchCancelled, pending,
                 adCtxCancelled, adClosed, ccState, outsideWatch>>

\* the task: callback(addresses) is entered ...
TaskCallbackBegin(i) ==
  /\ adPc[i] = "tcb"
  /\ adPc' = [adPc EXCEPT ![i] = "tincb"]
  /\ UNCHANGED <<kvs, watchers, resolverClosed, watchCancelled, pending, hand,
                 adCtxCancelled, adClosed, ccState, outsideWatch>>

\* ... and runs r.updateState(addrs) and returns
TaskCallbackEnd(i) ==
  /\ adPc[i] = "tincb"
  /\ updateState(i, hand[i])
  /\ hand' = [hand EXCEPT ![i] = <<>>]
  /\ adPc' = [adPc EXCEPT ![i] = "select"]
  /\ UNCHANGED <<kvs, watchers, resolverClosed, watchCancelled, pending,
                 adCtxCancelled, adClosed, outsideWatch>>

\* serviceResolver.ResolveNow: Resolve with r.ctx, then updateState
ResolveNow(i) ==
  /\ adPc[i] # "unbuilt"
  /\ \E getOk \in BOOLEAN :
       LET res == ResolveCtx(adPc[i] # "built" /\ adCtxCancelled[i], getOk)
       IN  /\ ~res.err
           /\ updateState(i, res.addresses)
  /\ UNCHANGED <<kvs, watchers, resolverClosed, watchCancelled, pending, adPc,
                 hand, adCtxCancelled, adClosed, outsideWatch>>

\* serviceResolver.Close: r.cancel() when start() has set it
AdapterClose(i) ==
  /\ adPc[i] # "unbuilt"
  /\ ~adClosed[i]
  /\ adClosed' = [adClosed EXCEPT ![i] = TRUE]
  /\ adCtxCancelled' = [adCtxCancelled EXCEPT ![i] = adPc[i] # "built"]
  /\ UNCHANGED <<kvs, watchers, resolverClosed, watchCancelled, pending, adPc,
                 hand, ccState, outsideWatch>>

\* EtcdResolver.Close: every stored cancel is called, the map is replaced
ResolverClose ==
  /\ watchCancelled' = [i \in Adapters |->
                          watchCancelled[i] \/ \E s \in DOMAIN watchers : watchers[s] = i]
  /\ watchers' = <<>>
  /\ resolverClosed' = TRUE
  /\ UNCHANGED <<kvs, pending, adPc, hand, adCtxCancelled, adClosed, ccState,
                 outsideWatch>>

\* the watches that get a response for a change of key k
Notified(k) ==
  { i \in Adapters :
      /\ adPc[i] \in TaskPcs
      /\ ~WatchCtxDone(i)
      /\ HasPrefix(k, PathJoin(<<DefaultEtcdPrefix, WatchedService>>)) }

\* a server elsewhere completes the Put of its Register
StorePut(k) ==
  /\ kvs' = [x \in DOMAIN kvs \cup {k} |-> IF x = k THEN 0 ELSE kvs[x]]
  /\ pending' = [i \in Adapters |-> pending[i] \/ i \in Notified(k)]
  /\ UNCHANGED <<watchers, resolverClosed, watchCancelled, adPc, hand,
                 adCtxCancelled, adClosed, ccState, outsideWatch>>

\* a key goes away: Deregister's Delete, a revoked or an expired lease
StoreDelete(k) ==
  /\ k \in DOMAIN kvs
  /\ kvs' = DropKeys(kvs, {k})
  /\ pending' = [i \in Adapters |-> pending[i] \/ i \in Notified(k)]
  /\ UNCHANGED <<watchers, resolverClosed, watchCancelled, adPc, hand,
                 adCtxCancelled, adClosed, ccState, outsideWatch>>

NextWatch ==
  \/ \E i \in Adapters :
       \/ AdapterBuild(i)
       \/ AdapterStart(i)
       \/ AdapterResolve(i)
       \/ AdapterUpdate(i)
       \/ WatchRegister(i)
       \/ WatchResolve(i)
       \/ WatchCallbackBegin(i)
       \/ WatchCallbackEnd(i)
       \/ WatchOpen(i)
       \/ TaskDone(i)
       \/ TaskReceive(i)
       \/ TaskCanceled(i)
       \/ TaskResolve(i)
       \/ TaskCallbackBegin(i)
       \/ TaskCallbackEnd(i)
       \/ ResolveNow(i)
       \/ AdapterClose(i)
  \/ ResolverClose
  \/ \E k \in WatchKeys : StorePut(k) \/ StoreDelete(k)

SpecWatch == Init /\ [][NextWatch]_vars

\* the same with only the first NumWatching adapters built: the steps of a
\* watch against the store's changes and EtcdResolver.Close, with few or no
\* other watches beside it
WatchingAdapters == { i \in Adapters : i <= NumWatching }

NextFewWatches ==
  \/ \E i \in WatchingAdapters :
       \/ AdapterBuild(i)
       \/ AdapterStart(i)
       \/ AdapterResolve(i)
       \/ AdapterUpdate(i)
       \/ WatchRegister(i)
       \/ WatchResolve(i)
       \/ WatchCallbackBegin(i)
       \/ WatchCallbackEnd(i)
       \/ WatchOpen(i)
       \/ TaskDone(i)
       \/ TaskReceive(i)
       \/ TaskCanceled(i)
       \/ TaskResolve(i)
       \/ TaskCallbackBegin(i)
       \/ TaskCallbackEnd(i)
       \/ ResolveNow(i)
       \/ AdapterClose(i)
  \/ ResolverClose
  \/ \E k \in WatchKeys : StorePut(k) \/ StoreDelete(k)

SpecFewWatches == Init /\ [][NextFewWatches]_vars

(***************************************************************************)
(* StaticResolver: a fixed address list that UpdateAddresses replaces.      *)
(* Resolve copies the list under the read lock and fails on an empty list; *)
(* Watch resolves once, returns Resolve's error or calls the callback      *)
(* once, and starts no task.                                               *)
(***************************************************************************)
\* the lists NewStaticResolver and UpdateAddresses are given
AddressLists ==
  UNION { [1..n -> Addresses] : n \in 0..MaxStaticAddresses }

StaticResolveResult(list) ==
  IF Len(list) = 0
    THEN [err |-> TRUE, addresses |-> <<>>]
    ELSE [err |-> FALSE, addresses |-> list]

StaticResolve ==
  /\ staticResolve' = [called |-> TRUE,
                       err |-> StaticResolveResult(staticAddresses).err,
                       addresses |-> StaticResolveResult(staticAddresses).addresses]
  /\ UNCHANGED <<staticAddresses, staticWatch, outsideStatic>>

\* the callback appends what it is given to delivered
StaticWatch ==
  /\ LET res == StaticResolveResult(staticAddresses) IN
       staticWatch' =
         IF res.err
           THEN [called |-> TRUE, err |-> TRUE, delivered |-> <<>>]
           ELSE [called |-> TRUE, err |-> FALSE, delivered |-> <<res.addresses>>]
  /\ UNCHANGED <<staticAddresses, staticResolve, outsideStatic>>

UpdateAddresses(list) ==
  /\ staticAddresses' = list
  /\ UNCHANGED <<staticResolve, staticWatch, outsideStatic>>

NextStatic ==
  \/ StaticResolve
  \/ StaticWatch
  \/ \E list \in AddressLists : UpdateAddresses(list)

InitWithStatic ==
  /\ InitStore
  /\ InitRegistry
  /\ InitResolveOut
  /\ InitPicker({1})
  /\ InitRegistrar({<<>>})
  /\ InitWatch
  /\ InitStatic(AddressLists)
  /\ InitServer
  /\ InitClient
  /\ InitLogger({LevelInfo})

SpecStatic == InitWithStatic /\ [][NextStatic]_vars

(***************************************************************************)
(* The server process: NewGrpcServer, GrpcServer.Start and GrpcServer.Stop *)
(* over EtcdRegistry.  NewGrpcServer creates a first registry, which Start *)
(* closes before it creates the one it registers with.  logger.Fatal logs  *)
(* and calls os.Exit(1): the process is gone, none of its steps follows.   *)
(***************************************************************************)
\* the registry NewGrpcServer creates, and the one Start creates
FirstRegistry == 2
StartRegistry == 1

\* NewGrpcServer: a config error is returned; a failed NewEtcdRegistry is Fatal
NewGrpcServer(serviceName, address) ==
  /\ ~exited
  /\ srvPc = "none"
  /\ \E configOk \in BOOLEAN, registryOk \in BOOLEAN :
       IF ~registryOk
         THEN /\ exited' = TRUE
              /\ UNCHANGED <<srvPc, srvConfig>>
         ELSE /\ srvPc' = IF configOk THEN "new" ELSE "failed"
              /\ srvConfig' = <<serviceName, address>>
              /\ UNCHANGED exited
  /\ UNCHANGED <<storeVars, registryVars, outsideServer>>

\* Start: s.registrar.Close() closes the first registry
StartCloseFirst ==
  /\ ~exited
  /\ srvPc = "new"
  /\ ~clientClosed[FirstRegistry]
  /\ RegistryClose(FirstRegistry)

\* Start: NewEtcdRegistry again; its failure is returned
StartNewRegistry ==
  /\ ~exited
  /\ srvPc = "new"
  /\ clientClosed[FirstRegistry]
  /\ \E registryOk \in BOOLEAN :
       srvPc' = IF registryOk THEN "register" ELSE "failed"
  /\ UNCHANGED <<srvConfig, exited, storeVars, registryVars, outsideServer>>

\* s.registrar.Register has returned: with an error, or with the stream started
RegisterReturned ==
  /\ regPc[StartRegistry] = "idle"
  /\ regErr[StartRegistry] \/ leaseKeep[StartRegistry] # 0

\* Start: s.registrar.Register(context.Background()), statement by statement
StartRegister ==
  /\ ~exited
  /\ srvPc = "register"
  /\ ~RegisterReturned
  /\ \/ RegisterGrant(StartRegistry, srvConfig[1], srvConfig[2])
     \/ RegisterPut(StartRegistry)
     \/ RegisterKeepAlive(StartRegistry)

\* Start: a failed Register is Fatal; else StartKeepAlive and return nil
StartRegistered ==
  /\ ~exited
  /\ srvPc = "register"
  /\ RegisterReturned
  /\ IF regErr[StartRegistry]
       THEN /\ exited' = TRUE
            /\ UNCHANGED srvPc
       ELSE /\ srvPc' = "started"
            /\ UNCHANGED exited
  /\ UNCHANGED <<srvConfig, storeVars, registryVars, outsideServer>>

\* the heartbeat StartKeepAlive started: registry.KeepAlive at a tick
ServerHeartbeat ==
  /\ ~exited
  /\ srvPc = "started"
  /\ KeepAlive(StartRegistry, srvConfig[1], srvConfig[2])

\* Stop: s.registrar.Deregister(context.Background())
StopDeregister ==
  /\ ~exited
  /\ \/ /\ srvPc = "started"
        /\ DeregisterRevoke(StartRegistry, srvConfig[1], srvConfig[2])
     \/ /\ srvPc = "started"
        /\ DeregisterDelete(StartRegistry)

\* Stop: a failed Deregister is returned; else s.registrar.Close() follows
StopDeregistered ==
  /\ ~exited
  /\ srvPc = "started"
  /\ regPc[StartRegistry] = "idle"
  /\ leaseID[StartRegistry] = 0
  /\ srvPc' = IF regErr[StartRegistry] THEN "stopFailed" ELSE "close"
  /\ UNCHANGED <<srvConfig, exited, storeVars, registryVars, outsideServer>>

\* Stop: s.registrar.Close()
StopClose ==
  /\ ~exited
  /\ srvPc = "close"
  /\ ~clientClosed[StartRegistry]
  /\ RegistryClose(StartRegistry)

\* Stop: a failed Close is returned; else s.server.Stop()
StopClosed ==
  /\ ~exited
  /\ srvPc = "close"
  /\ clientClosed[StartRegistry]
  /\ srvPc' = IF regErr[StartRegistry] THEN "stopFailed" ELSE "stopped"
  /\ UNCHANGED <<srvConfig, exited, storeVars, registryVars, outsideServer>>

NextServer ==
  \/ \E s \in ServiceNames, a \in Addresses : NewGrpcServer(s, a)
  \/ StartCloseFirst
  \/ StartNewRegistry
  \/ StartRegister
  \/ StartRegistered
  \/ ServerHeartbeat
  \/ StopDeregister
  \/ StopDeregistered
  \/ StopClose
  \/ StopClosed
  \/ \E l \in LeaseIds : StreamLost(l) \/ LeaseExpire(l)

SpecServer == Init /\ [][NextServer]_vars

(***************************************************************************)
(* Logger: log returns at once when level < l.level, else it writes one    *)
(* entry to l.output (text on a console, JSON in a file, a plain line when *)
(* the JSON encoding fails).  Fatal calls os.Exit(1) after log.            *)
(***************************************************************************)
\* every call is written, whatever the level
EmitsAlways(level, current) == TRUE

\* `if level < l.level { return }`
Emits(level, current) == ~(level < current)

\* Logger.Debug / Info / Warn / Error / Fatal
LogCall(level) ==
  /\ ~exited
  /\ Len(logged) < MaxEntries
  /\ lastLog' = <<level>>
  /\ logged' = IF Emits(level, logLevel) THEN Append(logged, level) ELSE logged
  /\ exited' = (level = LevelFatal)
  /\ UNCHANGED <<logLevel, outsideLogger>>

\* Logger.SetLevel
SetLevel(level) ==
  /\ ~exited
  /\ logLevel' = level
  /\ UNCHANGED <<logged, lastLog, exited, outsideLogger>>

NextLogger ==
  \/ \E level \in Levels : LogCall(level)
  \/ \E level \in LevelValues : SetLevel(level)

InitWithLogger ==
  /\ InitStore
  /\ InitRegistry
  /\ InitResolveOut
  /\ InitPicker({1})
  /\ InitRegistrar({<<>>})
  /\ InitWatch
  /\ InitStatic({<<>>})
  /\ InitServer
  /\ InitClient
  /\ InitLogger(LevelValues)

SpecLogger == InitWithLogger /\ [][NextLogger]_vars

(***************************************************************************)
(* NewClient and Client: NewClient registers a builder for its provider    *)
(* under the provider's scheme in gRPC's resolver registry, Connect dials  *)
(* the address and the dial builds the adapter with the builder it finds   *)
(* under the address's scheme.                                             *)
(***************************************************************************)
StaticScheme == <<"s">>
EtcdScheme == <<"e">>
SchemeSep == <<":", "/", "/">>

\* the dynamic type of a ServiceDiscovery value: provider 1 is a
\* *StaticResolver, the others are *EtcdResolver
ProviderType(p) == IF p = 1 THEN "StaticResolver" ELSE "EtcdResolver"

\* the scan containsScheme and extractScheme share: the position of the ":"
\* of the first "://", 0 when a "/" or a ":" without "//" comes first
RECURSIVE SchemeEnd(_, _)
SchemeEnd(address, i) ==
  IF i > Len(address) THEN 0
  ELSE IF address[i] = ":"
    THEN IF i + 2 <= Len(address) /\ address[i + 1] = "/" /\ address[i + 2] = "/"
           THEN i ELSE 0
  ELSE IF address[i] = "/" THEN 0
  ELSE SchemeEnd(address, i + 1)

containsScheme(address) == SchemeEnd(address, 1) # 0

extractScheme(address) ==
  IF SchemeEnd(address, 1) = 0 THEN <<>>
  ELSE SubSeq(address, 1, SchemeEnd(address, 1) - 1)

\* the scheme NewClient registers config.ServiceDiscovery under
SchemeFor(p, address) ==
  LET scheme == IF ProviderType(p) = "EtcdResolver" THEN EtcdScheme ELSE StaticScheme
  IN  IF ~containsScheme(address) THEN scheme
      ELSE IF extractScheme(address) # <<>> THEN extractScheme(address)
      ELSE scheme

\* c.address as NewClient sets it
AddressFor(p, address) ==
  IF p # 0 /\ ~containsScheme(address)
    THEN SchemeFor(p, address) \o SchemeSep \o address
    ELSE address

\* RegisterResolver(scheme, sd): resolver.Register keeps one builder per
\* scheme, the one registered last
RegisterResolver(table, scheme, p) ==
  [s \in DOMAIN table \cup {scheme} |-> IF s = scheme THEN p ELSE table[s]]

\* the builder the dial of address finds: the registry entry of its scheme
BuilderOf(table, address) ==
  IF containsScheme(address) /\ extractScheme(address) \in DOMAIN table
    THEN table[extractScheme(address)]
    ELSE 0

\* NewClient(config) making client c: p is config.ServiceDiscovery (0: nil)
NewClient(c, p, address) ==
  /\ clAddress[c] = <<>>
  /\ schemeTable' = IF p # 0
                      THEN RegisterResolver(schemeTable, SchemeFor(p, address), p)
                      ELSE schemeTable
  /\ clSd' = [clSd EXCEPT ![c] = p]
  /\ clAddress' = [clAddress EXCEPT ![c] = AddressFor(p, address)]

\* the addresses a caller passes: a service name, with or without a scheme
ClientAddresses == { <<"o">>, StaticScheme \o SchemeSep \o <<"o">> }

NewClientCall(c, p, address) ==
  /\ NewClient(c, p, address)
  /\ UNCHANGED <<clConn, clBuiltOn, mgrServices, mgrClients, getPc, getArg,
                 getOut, outsideClient>>

\* Client.Connect: an error when c.conn is set, else grpc.DialContext, which
\* returns the connection while it is still connecting
Connect(c) ==
  /\ clAddress[c] # <<>>
  /\ \E dialOk \in BOOLEAN :
       IF clConn[c] = "nil" /\ dialOk
         THEN /\ clConn' = [clConn EXCEPT ![c] = "CONNECTING"]
              /\ clBuiltOn' = [clBuiltOn EXCEPT ![c] =
                                 BuilderOf(schemeTable, clAddress[c])]
         ELSE UNCHANGED <<clConn, clBuiltOn>>
  /\ UNCHANGED <<schemeTable, clSd, clAddress, mgrServices, mgrClients, getPc,
                 getArg, getOut, outsideClient>>

\* Client.Close: c.conn.Close(), and c.conn = nil when that succeeded
ClientClose(c) ==
  /\ clAddress[c] # <<>>
  /\ \E closeOk \in BOOLEAN :
       clConn' = IF clConn[c] # "nil" /\ closeOk
                   THEN [clConn EXCEPT ![c] = "nil"] ELSE clConn
  /\ UNCHANGED <<schemeTable, clSd, clAddress, clBuiltOn, mgrServices,
                 mgrClients, getPc, getArg, getOut, outsideClient>>

\* conn.GetState() of an open connection changes with the network
ConnStates == {"IDLE", "CONNECTING", "READY", "TRANSIENT_FAILURE"}

ConnChange(c) ==
  /\ clConn[c] # "nil"
  /\ \E st \in ConnStates \ {clConn[c]} : clConn' = [clConn EXCEPT ![c] = st]
  /\ UNCHANGED <<schemeTable, clSd, clAddress, clBuiltOn, mgrServices,
                 mgrClients, getPc, getArg, getOut, outsideClient>>

\* Client.IsConnected
IsConnected(c) == clConn[c] # "nil" /\ clConn[c] = "READY"

NextClient ==
  \/ \E c \in Clients, p \in 0..NumProviders, address \in ClientAddresses :
       NewClientCall(c, p, address)
  \/ \E c \in Clients : Connect(c) \/ ClientClose(c) \/ ConnChange(c)

SpecClient == Init /\ [][NextClient]_vars

(***************************************************************************)
(* GrpcClientManager: one shared EtcdResolver, registered serviceNames and *)
(* the clients made for them.  GetClient looks the client up under RLock   *)
(* and, when there is none that IsConnected, checks again, creates,        *)
(* connects and stores one under m.mu.                                      *)
(***************************************************************************)
\* m.etcdResolver, the provider NewGrpcClientManager made and registered
ManagerResolver == 2

\* the lowest client not made yet
FreeClient == CHOOSE c \in Clients :
                /\ clAddress[c] = <<>>
                /\ \A d \in Clients : clAddress[d] = <<>> => c <= d

\* m.clients has a client for serviceName and it reports IsConnected
HasConnected(serviceName) ==
  serviceName \in DOMAIN mgrClients /\ IsConnected(mgrClients[serviceName])

RegisterService(serviceName) ==
  /\ mgrServices' = mgrServices \cup {serviceName}
  /\ UNCHANGED <<schemeTable, clSd, clAddress, clConn, clBuiltOn, mgrClients,
                 getPc, getArg, getOut, outsideClient>>

\* GetClient, the part under m.mu.RLock
GetClientBegin(t, serviceName) ==
  /\ getPc[t] = "idle"
  /\ IF HasConnected(serviceName)
       THEN /\ getOut' = [getOut EXCEPT ![t] =
                            [client |-> mgrClients[serviceName], err |-> FALSE]]
            /\ UNCHANGED <<getPc, getArg>>
       ELSE /\ getPc' = [getPc EXCEPT ![t] = "slow"]
            /\ getArg' = [getArg EXCEPT ![t] = serviceName]
            /\ UNCHANGED getOut
  /\ UNCHANGED <<schemeTable, clSd, clAddress, clConn, clBuiltOn, mgrServices,
                 mgrClients, outsideClient>>

\* GetClient, the part under m.mu.Lock: the second look, the test that the
\* service is registered, createClient, Connect, the store into m.clients
GetClientLocked(t) ==
  /\ getPc[t] = "slow"
  /\ getPc' = [getPc EXCEPT ![t] = "idle"]
  /\ getArg' = [getArg EXCEPT ![t] = <<>>]
  /\ LET serviceName == getArg[t]
     IN  IF HasConnected(serviceName)
           THEN /\ getOut' = [getOut EXCEPT ![t] =
                                [client |-> mgrClients[serviceName], err |-> FALSE]]
                /\ UNCHANGED <<schemeTable, clSd, clAddress, clConn, clBuiltOn,
                               mgrClients>>
         ELSE IF serviceName \notin mgrServices
           THEN /\ getOut' = [getOut EXCEPT ![t] = [client |-> 0, err |-> TRUE]]
                /\ UNCHANGED <<schemeTable, clSd, clAddress, clConn, clBuiltOn,
                               mgrClients>>
         ELSE /\ \E c \in Clients : clAddress[c] = <<>>
              /\ \E dialOk \in BOOLEAN :
                   LET c == FreeClient
                   IN  IF dialOk
                         THEN /\ NewClient(c, ManagerResolver, serviceName)
                              /\ clConn' = [clConn EXCEPT ![c] = "CONNECTING"]
                              /\ clBuiltOn' = [clBuiltOn EXCEPT ![c] =
                                                 BuilderOf(schemeTable', clAddress'[c])]
                              /\ mgrClients' =
                                   [s \in DOMAIN mgrClients \cup {serviceName} |->
                                      IF s = serviceName THEN c ELSE mgrClients[s]]
                              /\ getOut' = [getOut EXCEPT ![t] =
                                              [client |-> c, err |-> FALSE]]
                         ELSE /\ schemeTable' =
                                   RegisterResolver(schemeTable,
                                     SchemeFor(ManagerResolver, serviceName),
                                     ManagerResolver)
                              /\ getOut' = [getOut EXCEPT ![t] =
                                              [client |-> 0, err |-> TRUE]]
                              /\ UNCHANGED <<clSd, clAddress, clConn, clBuiltOn,
                                             mgrClients>>
  /\ UNCHANGED <<mgrServices, outsideClient>>

\* CloseClient: client.Close(), and the entry is deleted when that succeeded
CloseClient(serviceName) ==
  /\ serviceName \in DOMAIN mgrClients
  /\ \E closeOk \in BOOLEAN :
       LET c == mgrClients[serviceName]
       IN  IF clConn[c] = "nil" \/ closeOk
             THEN /\ clConn' = [clConn EXCEPT ![c] = "nil"]
                  /\ mgrClients' = [s \in DOMAIN mgrClients \ {serviceName} |->
                                      mgrClients[s]]
             ELSE UNCHANGED <<clConn, mgrClients>>
  /\ UNCHANGED <<schemeTable, clSd, clAddress, clBuiltOn, mgrServices, getPc,
                 getArg, getOut, outsideClient>>

NextManager ==
  \/ \E s \in ServiceNames : RegisterService(s) \/ CloseClient(s)
  \/ \E t \in Callers, s \in ServiceNames : GetClientBegin(t, s)
  \/ \E t \in Callers : GetClientLocked(t)
  \/ \E c \in Clients : ConnChange(c)

InitWithManager ==
  /\ InitStore
  /\ InitRegistry
  /\ InitResolveOut
  /\ InitPicker({1})
  /\ InitRegistrar({<<>>})
  /\ InitWatch
  /\ InitStatic({<<>>})
  /\ InitServer
  /\ InitClientWith(RegisterResolver(<<>>, EtcdScheme, ManagerResolver))
  /\ InitLogger({LevelInfo})

SpecManager == InitWithManager /\ [][NextManager]_vars

(***************************************************************************)
(* Claims.                                                                 *)
(***************************************************************************)

\* C2 (membership round trip): once every Register and Deregister has
\* returned, and returned nil, a Resolve(s) whose round trip succeeds returns exactly
\* the addresses registered under s and not deregistered or expired since,
\* which are the addresses a whose key prefix/s/a the store holds.
C2_MembershipRoundTrip ==
  (\A r \in Registries : regPc[r] = "idle" /\ ~regErr[r]) =>
    \A s \in ServiceNames :
      SeqToSet(Resolve(kvs, s, TRUE).addresses) =
        { a \in Addresses : ServiceKey(s, a) \in DOMAIN kvs }

\* the records under the key prefix of a service, and the address of a record
RecordsUnder(serviceName) ==
  { k \in DOMAIN kvs : HasPrefix(k, PathJoin(<<DefaultEtcdPrefix, serviceName>>)) }

AddressOfRecord(k) == Split(k)[Len(Split(k))]

DistinctAddressesUnder(serviceName) ==
  { AddressOfRecord(k) : k \in RecordsUnder(serviceName) }

\* C5 (dedup invariant): a Resolve(serviceName) that read N records whose
\* addresses take M distinct values returned exactly M entries, no address twice.
C5_ResolveDedup ==
  (resolveOut.name # <<>> /\ resolveOut.getOk) =>
    LET out == resolveOut.result.addresses
    IN  /\ Len(out) = Cardinality(DistinctAddressesUnder(resolveOut.name))
        /\ \A i, j \in 1..Len(out) : i # j => out[i] # out[j]

\* N = 2 records sharing M = 1 address were resolved
C5_Witness ==
  /\ resolveOut.name # <<>>
  /\ resolveOut.getOk
  /\ Cardinality(RecordsUnder(resolveOut.name)) = 2
  /\ Cardinality(DistinctAddressesUnder(resolveOut.name)) = 1
  /\ Len(resolveOut.result.addresses) = 1

\* C6 (lease lifecycle idempotence): a Deregister or Close on a registry that
\* holds no lease is a no-op: whatever serviceName and address are passed, it
\* revokes no lease and removes no key from the store.  (The claim also says
\* that it returns no error; the store part alone is stated here.)
C6_NoLeaseNoOp ==
  [][\A r \in Registries :
       ( \/ regPc[r] = "deleteOnly" /\ regPc'[r] = "idle"
         \/ leaseID[r] = 0 /\ RegistryClose(r) )
       => (kvs' = kvs /\ leases' = leases)]_vars

\* C4 (round-robin fairness): over a ready set of N connections, any N
\* consecutive picks are N distinct connections and the pick N calls later
\* is the same connection again (one cyclic order, the (N+1)-th repeats the first).
C4_RoundRobinFair ==
  pickerKind = "rr" =>
    LET N == Len(subConns)
    IN  /\ \A i \in 1..Len(picks) :
             i + N - 1 <= Len(picks) =>
               { picks[j] : j \in i..(i + N - 1) } = SeqToSet(subConns)
        /\ \A i \in 1..Len(picks) :
             i + N <= Len(picks) => picks[i + N] = picks[i]

\* N = 3 ready connections and N + 1 picks made
C4_Witness ==
  /\ pickerKind = "rr"
  /\ Len(subConns) = 3
  /\ Len(picks) = 4

\* C3 (registrar heartbeat cessation): once ServiceRegistrar.Close has
\* returned, the heartbeat task makes no further KeepAlive call.
C3_NoKeepAliveAfterClose ==
  [][srClosed => keepAliveCalls' = keepAliveCalls]_vars

\* watch j has replaced watch i: Watch call j stored its handle, cancelled
\* that of i, and has returned
Replaced(i, j) ==
  /\ i # j
  /\ watchCancelled[i]
  /\ WatchedService \in DOMAIN watchers
  /\ watchers[WatchedService] = j
  /\ adPc[j] \in TaskPcs \cup {"exit"}

\* the step is the background task of watch i entering its callback
TaskInvokesCallback(i) == adPc[i] = "tcb" /\ adPc'[i] = "tincb"

\* C1 (watch replacement): after a second Watch for the same serviceName has
\* returned, the background task of the first, replaced watch never invokes
\* its callback again.
C1_WatchReplacement ==
  [][\A i, j \in Adapters : Replaced(i, j) => ~TaskInvokesCallback(i)]_vars

\* C8 (eventual observation): every adapter that was not closed calls Watch
\* after its initial Resolve, also when that Resolve failed: start() never
\* returns without the Watch call on its way.
C8_AdapterAlwaysWatches ==
  \A i \in Adapters : ~(adPc[i] = "end" /\ ~adClosed[i])

\* the step is a cc.UpdateState call of adapter i
UpdateStateCalled(i) ==
  \/ AdapterUpdate(i)
  \/ WatchCallbackEnd(i)
  \/ TaskCallbackEnd(i)
  \/ ResolveNow(i)

\* a watch started by adapter i is live: its handle is stored, or its Watch
\* call or task is running on a context that is not done
WatchLive(i) ==
  \/ \E s \in DOMAIN watchers : watchers[s] = i /\ ~watchCancelled[i]
  \/ adPc[i] \in TaskPcs /\ ~WatchCtxDone(i)

\* C9 (Closed is terminal): once serviceResolver.Close has returned, the
\* adapter makes no UpdateState call and starts or keeps no live watch.
C9_ClosedIsTerminal ==
  [][\A i \in Adapters :
       adClosed[i] => (~UpdateStateCalled(i) /\ ~WatchLive(i)')]_vars

\* C10 (serial delivery): at no time are two callback invocations for the
\* serviceName in progress, counting the one inside Watch, the watch task's
\* and a replaced watch's.
C10_SerialDelivery ==
  Cardinality({ i \in Adapters : adPc[i] \in {"wincb", "tincb"} }) <= 1

\* C7 (Watch on an empty service): a Watch called while no address exists
\* for the service returns without error and does not invoke the callback.
C7_WatchOnEmpty ==
  [][(staticAddresses = <<>> /\ StaticWatch)
       => (~staticWatch'.err /\ staticWatch'.delivered = <<>>)]_vars

\* the callback of watch i is about to run or running
InCallback(i) == adPc[i] \in {"wcb", "wincb", "tcb", "tincb"}

\* C11 (fail-safe on failed re-resolve): a watch task whose re-executed
\* Resolve fails goes back to waiting without invoking the callback and
\* leaves the pushed address set as it was; no callback is handed an empty
\* list, and a non-empty set pushed into the connection manager is never
\* replaced by an empty one.
C11_FailSafeReResolve ==
  [][\A i \in Adapters :
       /\ (adPc[i] = "tresolve" /\ adPc'[i] # "tresolve"
             /\ (adPc'[i] = "select" \/ ResolveCtx(WatchCtxDone(i), TRUE).err))
            => (adPc'[i] = "select" /\ ccState' = ccState /\ hand' = hand)
       /\ InCallback(i)' => hand'[i] # <<>>
       /\ ccState[i] # <<>> => ccState'[i] # <<>>]_vars

\* a live watch task is about to re-resolve after the last instance went
\* away, with a non-empty set pushed earlier
C11_Witness ==
  \E i \in Adapters :
    /\ adPc[i] = "tresolve"
    /\ ~WatchCtxDone(i)
    /\ ~resolverClosed
    /\ Resolve(kvs, WatchedService, TRUE).err
    /\ ccState[i] # <<>>

\* C12 (heartbeat stream teardown): once Deregister or Close has returned
\* (the provider is idle and holds no lease), no lease is renewed by a
\* heartbeat stream of this provider any more.
C12_HeartbeatTeardown ==
  \A r \in Registries :
    (regPc[r] = "idle" /\ leaseID[r] = 0) =>
      \A l \in LeaseIds : streamOwner[l] # r

\* C13 (watch task survives a store failure): a watch task returns only
\* when its own context was cancelled (by a replacing Watch, by Close or by
\* the caller); a failure reported by the store leaves it running.
C13_TaskSurvivesStoreFailure ==
  \A i \in Adapters : adPc[i] = "exit" => WatchCtxDone(i)

\* C14 (Discovery Provider Close): EtcdResolver.Close leaves the handle map
\* empty, a second Close directly after it leaves the provider as it is, and
\* once Close has returned no watch background task invokes its callback
\* again.
C14_CloseStopsWatches ==
  [][/\ (~resolverClosed /\ resolverClosed') => watchers' = <<>>
     /\ (resolverClosed /\ watchers = <<>> /\ ResolverClose) =>
          (watchers' = watchers /\ watchCancelled' = watchCancelled)
     /\ resolverClosed => \A i \in Adapters : ~TaskInvokesCallback(i)]_vars

\* C15 (no I/O under the lock): no store round trip of an EtcdRegistry call
\* is made while the provider's mutex is held, so another call on the
\* provider never waits for it.
C15_NoIOUnderLock ==
  \A r \in Registries : ~(MuHeld(r) /\ RoundTripAhead(r))

\* C16 (failures never crash the process): no failure of the coordination
\* store on the way from NewGrpcServer to a registered instance ends the
\* process.
C16_NoCrash == ~exited

\* the picker has no connection to give: Build's picker for zero ready
\* connections, or a roundRobinPicker with an empty list
NoConnection == pickerKind = "err" \/ (pickerKind = "rr" /\ Len(subConns) = 0)

C18_StaticDedup ==
  (staticResolve.called /\ ~staticResolve.err) =>
    \A i, j \in DOMAIN staticResolve.addresses :
      i # j => staticResolve.addresses[i] # staticResolve.addresses[j]

\* C19 (Watch delivers every data change): once a Watch on the
\* StaticResolver is established, the last list its callback was given is
\* the resolver's current list whenever no call on the resolver is running
\* and that list is not empty (an UpdateAddresses after Watch has been
\* followed by its delivery).
C19_StaticWatchDelivers ==
  (staticWatch.called /\ ~staticWatch.err /\ staticAddresses # <<>>) =>
    staticWatch.delivered[Len(staticWatch.delivered)] = staticAddresses

C21_NoStarvation ==
  \A i \in Adapters :
    (adPc[i] \in TaskPcs /\ ~adClosed[i] /\ ~resolverClosed) => ~watchCancelled[i]

\* the step is Register on registry r returning an error: the Grant, the
\* Put or the start of KeepAlive failed
RegisterFails(r) ==
  /\ \/ \E s \in ServiceNames, a \in Addresses : RegisterGrant(r, s, a)
     \/ RegisterPut(r)
     \/ RegisterKeepAlive(r)
  /\ regPc'[r] = "idle"
  /\ regErr'[r]

\* C22 (Register leaves no lease behind on error): when Register returns an
\* error the provider holds no lease: its lease handle is 0 and no heartbeat
\* stream of it runs.
C22_NoLeaseAfterFailedRegister ==
  [][\A r \in Registries :
       RegisterFails(r) =>
         (leaseID'[r] = 0 /\ \A l \in LeaseIds : streamOwner'[l] # r)]_vars

\* C23 (service-name isolation): Resolve(s) returns only addresses of
\* instances registered under exactly the service name s, also when s is a
\* leading substring of another registered name.
C23_ServiceNameIsolation ==
  (resolveOut.name # <<>> /\ resolveOut.getOk) =>
    \A a \in SeqToSet(resolveOut.result.addresses) :
      ServiceKey(resolveOut.name, a) \in DOMAIN kvs

\* C24 (a client resolves through its own Discovery Provider): the adapter
\* of a client's connection is built on the provider the client's NewClient
\* was given, whatever providers other clients registered for the scheme.
C24_OwnProvider ==
  \A c \in Clients :
    (clSd[c] # 0 /\ clConn[c] # "nil") => clBuiltOn[c] = clSd[c]

\* C25 (second Register replaces the lease): a Register on a provider that
\* holds a lease takes a new lease as its handle and leaves the old lease
\* and every key in the store as they are; a following Deregister or Close
\* revokes the held lease only (other leases and their keys stay), and
\* Deregister's Delete removes no key but the one its arguments name.
C25_SecondRegisterReplaces ==
  [][\A r \in Registries :
       /\ ( /\ leaseID[r] # 0
            /\ regPc'[r] = "put"
            /\ \E s \in ServiceNames, a \in Addresses : RegisterGrant(r, s, a) )
          => /\ leaseID'[r] # leaseID[r]
             /\ leases'[leaseID[r]] = leases[leaseID[r]]
             /\ kvs' = kvs
       /\ ( \/ \E s \in ServiceNames, a \in Addresses : DeregisterRevoke(r, s, a)
            \/ RegistryClose(r) )
          => \A l \in LeaseIds \ {leaseID[r]} :
               /\ leases'[l] = leases[l]
               /\ KeysOfLease(kvs', l) = KeysOfLease(kvs, l)
       /\ DeregisterDelete(r)
          => \A k \in DOMAIN kvs :
               k # ServiceKey(regArgs[r][1], regArgs[r][2]) => k \in DOMAIN kvs']_vars

\* a provider registered twice and deregistered once: it holds no lease, its
\* second lease is gone, and the lease of its first registration is alive,
\* kept alive by its stream, with its key in the store
C25_Witness ==
  \E r \in Registries :
    /\ regPc[r] = "idle"
    /\ leaseID[r] = 0
    /\ ~clientClosed[r]
    /\ \A q \in Registries \ {r} : leaseID[q] = 0 /\ ~clientClosed[q] /\ ~regErr[q]
    /\ streamOwner[1] = r
    /\ leases[1] = "alive"
    /\ leases[2] = "gone"
    /\ KeysOfLease(kvs, 1) # {}

\* the connection the plain rotation over conns gives on its n-th pick
\* (n = 1 is the first): conns in order, starting over after the last
RoundRobinPick(conns, n) == conns[((n - 1) % Len(conns)) + 1]

\* C26 (weighted round-robin equals round-robin): whatever weights the
\* instances of the ready set carry, the picker the weighted_round_robin
\* policy builds returns, pick after pick, the connections of the plain
\* rotation over its connection list.
C26_WeightedEqualsRoundRobin ==
  pickerKind = "rr" =>
    \A n \in 1..Len(picks) : picks[n] = RoundRobinPick(subConns, n)

\* two ready connections of different weights and a full turn and a half
C26_Witness ==
  /\ pickerKind = "rr"
  /\ Len(subConns) = 2
  /\ connWeights[subConns[1]] # connWeights[subConns[2]]
  /\ Len(picks) = 3

\* C27 (registrar Deregister stops the heartbeat first): once
\* ServiceRegistrar.Deregister has stopped the timer and returned, the
\* heartbeat task issues no further KeepAlive call to the provider.
C27_NoKeepAliveAfterDeregister ==
  [][keepAliveTicker = "stopped" => keepAliveCalls' = keepAliveCalls]_vars

\* C28 (lease loss without recovery): when the heartbeat stream of a lease
\* a provider holds ends unexpectedly (the lease is alive, the provider
\* open), the provider's goroutine logs a warning as it ends; the loss itself grants no lease, writes no key and
\* leaves the lease handle as it is; and when the lease then runs out its
\* keys are gone from the store.
C28_LeaseLossNoRecovery ==
  [][\A l \in LeaseIds :
       /\ StreamLost(l) => (leases' = leases /\ kvs' = kvs /\ leaseID' = leaseID)
       /\ ( /\ KeepLoopEnd(l)
            /\ leases[l] = "alive"
            /\ \E r \in Registries : leaseID[r] = l /\ ~clientClosed[r] )
          => keepWarned'[l]
       /\ LeaseExpire(l) => KeysOfLease(kvs', l) = {}]_vars

\* C29 (no watch-handle leak): the handle map holds no entry for a watch
\* whose background task has exited, whether its caller's context or its
\* change stream was cancelled.
C29_NoHandleLeak ==
  \A s \in DOMAIN watchers : adPc[watchers[s]] # "exit"

\* the clients of the manager for serviceName whose connection is open
OpenClientsOf(serviceName) ==
  { c \in Clients :
      /\ clAddress[c] = AddressFor(ManagerResolver, serviceName)
      /\ clConn[c] # "nil" }

\* C30 (the client manager creates a client only when none exists): at no
\* time are there two clients with an open connection for one service, and a
\* GetClient for a service that was not registered returns an error and
\* creates nothing.
C30_OneClientPerService ==
  /\ \A s \in ServiceNames : Cardinality(OpenClientsOf(s)) <= 1
  /\ \A s \in ServiceNames : s \notin mgrServices => OpenClientsOf(s) = {}

====
